---- MODULE Spec2Model ----
(***************************************************************************)
(* TCP reassembly and PostgreSQL framing of trafrep (package stream, the   *)
(* TCPStreamManager of the replay command) as a state machine.             *)
(*                                                                         *)
(* A byte is an integer 0..255, a buffer a sequence of bytes, a timestamp  *)
(* an integer with 0 standing for the zero time.Time{}.  Go slices are     *)
(* 0-based; the cursors keep their Go values and completed[i] of the code  *)
(* is completed[i+1] here.  A run-time panic of the Go program is the      *)
(* value of `fault`: the state keeps what the statements before the panic  *)
(* had already written, and nothing runs afterwards.                       *)
(*                                                                         *)
(* Spec feeds one conversation and collects; FlowSpec feeds two            *)
(* conversations and goes on after a collect; SizedSpec feeds frames of    *)
(* megabytes to a client buffer kept by its size; ReplaySpec is            *)
(* ReplayMessages of the replay driver on a list of collected messages;    *)
(* EdgeSpec and StampSpec feed one conversation and keep the history of    *)
(* the captured packets; IsolationSpec feeds a given capture of two        *)
(* conversations; WaitSpec is one call of waitForReady, WaitFairSpec the   *)
(* same with the goroutine kept running.                                   *)
(***************************************************************************)
EXTENDS Integers, Sequences, FiniteSets, TLC

(* ------------------------------ bounds -------------------------------- *)

\* packets handed to AddPacket in one run
MaxPackets == 4
\* largest capture timestamp
MaxTime == 2

(* ------------------------- message-type registry ---------------------- *)

MessageTypeQuery == 81
MessageTypeParse == 80
ClientMessageTypeOnlyLength == 0
MessageTypeCommandComplete == 67
MessageTypeReadyForQuery == 90
MessageTypeRowDescription == 84

HaveTypeByte(mt) == mt # ClientMessageTypeOnlyLength

NeedCommandCompleteAnswer(mt) == mt = MessageTypeQuery

NeedReadyForQueryAnswer(mt) == mt = MessageTypeQuery

\* the test of parseServerBuffer on the first byte
isASCIIType(first) == (first >= 65 /\ first <= 90) \/ (first >= 97 /\ first <= 122)

(* ------------------------------ integers ------------------------------ *)

\* Stands for every value of 2^31 and more: it is only ever compared with
\* buffer lengths, which are smaller.
Huge == 127 * 16777216 + 16777215

\* binary.BigEndian.Uint32 of four bytes
BigEndianUint32(b) ==
    IF b[1] >= 128 THEN Huge
    ELSE ((b[1] * 256 + b[2]) * 256 + b[3]) * 256 + b[4]

\* binary.BigEndian.PutUint32: the four bytes of v
PutUint32(v) ==
    << (v \div 16777216) % 256, (v \div 65536) % 256, (v \div 256) % 256, v % 256 >>

\* uint32(1) + lenField, in 32-bit unsigned arithmetic
ServerTotal(b) ==
    IF b = <<255, 255, 255, 255>> THEN 0
    ELSE IF b[1] >= 128 THEN Huge
    ELSE 1 + BigEndianUint32(b)

(* ------------------------------ sequences ----------------------------- *)

\* s[from:to] of Go on a sequence (0-based, to exclusive)
Slice(s, from, to) == SubSeq(s, from + 1, to)

\* s[from:] of Go
Drop(s, from) == SubSeq(s, from + 1, Len(s))

RECURSIVE SumLengths(_)
SumLengths(segs) ==
    IF segs = << >> THEN 0 ELSE Head(segs).length + SumLengths(Tail(segs))

RECURSIVE Flatten(_)
Flatten(ss) == IF ss = << >> THEN << >> ELSE Head(ss) \o Flatten(Tail(ss))

(* ------------------------------ messages ------------------------------ *)

\* faulty variant of typedByteRow: the type byte is not written
typedByteRowNoType(m) == PutUint32(m.Len) \o m.Payload

typedByteRow(m) == <<m.Type>> \o PutUint32(m.Len) \o m.Payload

untypedByteRow(m) == PutUint32(m.Len) \o m.Payload

Row(m) == IF HaveTypeByte(m.Type) THEN typedByteRow(m) ELSE untypedByteRow(m)

(* --------------------------- segments, stream ------------------------- *)

RECURSIVE tsWalk(_, _, _, _)
tsWalk(segs, i, acc, offset) ==
    IF i > Len(segs) THEN 0
    ELSE IF offset < acc + segs[i].length THEN segs[i].ts
    ELSE tsWalk(segs, i + 1, acc + segs[i].length, offset)

timestampByOffset(segs, offset) == tsWalk(segs, 1, 0, offset)

NewTCPStream ==
    [ clientBuf |-> << >>, clientCap |-> 0, clientSegs |-> << >>,
      serverBuf |-> << >>, serverSegs |-> << >>,
      completed |-> << >>,
      needCommandCompleteIndex |-> 0, needReadyForQueryIndex |-> 0 ]

\* append grows clientBuf as the Go runtime does: to the new length when it is
\* more than twice the capacity, to twice the capacity otherwise (capacities
\* under 256), rounded up to the allocator's size class.
SizeClasses == <<8, 16, 24, 32, 48, 64, 80, 96, 112, 128>>

roundupsize(n) ==
    LET fit == { i \in 1..Len(SizeClasses) : SizeClasses[i] >= n }
    IN  IF fit = {} THEN n
        ELSE SizeClasses[CHOOSE i \in fit : \A j \in fit : i <= j]

\* capacity of append(buf, data...) for a buffer of length len and capacity cap
appendCap(cap, len, n) ==
    IF len + n <= cap THEN cap
    ELSE IF len + n > 2 * cap THEN roundupsize(len + n)
    ELSE roundupsize(2 * cap)

Ok(st) == [st |-> st, fault |-> "none"]

Panic(st, what) == [st |-> st, fault |-> what]

clientMessageType(s) == s.clientBuf[1]

\* s.clientBuf[1:5] read as the length field: bytes between len and cap are
\* the zero bytes of the allocation, a slice beyond cap panics.
clientLenField(s) ==
    [ i \in 1..4 |-> IF i + 1 <= Len(s.clientBuf) THEN s.clientBuf[i + 1] ELSE 0 ]

tryCreateTypedMessage(s) ==
    IF s.clientCap < 5
    THEN [msg |-> << >>, processed |-> 0, fault |-> "slice bounds out of range"]
    ELSE
    LET msgType == clientMessageType(s)
        dataLen == BigEndianUint32(clientLenField(s))
        total == IF dataLen = Huge THEN Huge ELSE 1 + dataLen
        payloadLen == dataLen - 4
    IN  IF Len(s.clientBuf) < total
        THEN [msg |-> << >>, processed |-> 0, fault |-> "none"]
        ELSE IF payloadLen < 0
        THEN [msg |-> << >>, processed |-> 0, fault |-> "makeslice: len out of range"]
        ELSE [ msg |-> [ FirstTCPPacketTimestamp |-> timestampByOffset(s.clientSegs, 0),
                         LastTCPPacketTimestamp |-> timestampByOffset(s.clientSegs, total - 1),
                         CommandCompleteTimestamp |-> 0,
                         ReadyForQueryTimestamp |-> 0,
                         Type |-> msgType,
                         Len |-> dataLen,
                         Payload |-> Slice(s.clientBuf, 5, 5 + payloadLen) ],
               processed |-> total,
               fault |-> "none" ]

tryCreateUntypedMessage(s) ==
    LET dataLen == BigEndianUint32(Slice(s.clientBuf, 0, 4))
        payloadLen == dataLen - 4
    IN  IF Len(s.clientBuf) < dataLen
        THEN [msg |-> << >>, processed |-> 0, fault |-> "none"]
        ELSE IF payloadLen < 0
        THEN [msg |-> << >>, processed |-> 0, fault |-> "makeslice: len out of range"]
        ELSE [ msg |-> [ FirstTCPPacketTimestamp |-> timestampByOffset(s.clientSegs, 0),
                         LastTCPPacketTimestamp |-> timestampByOffset(s.clientSegs, dataLen - 1),
                         CommandCompleteTimestamp |-> 0,
                         ReadyForQueryTimestamp |-> 0,
                         Type |-> ClientMessageTypeOnlyLength,
                         Len |-> dataLen,
                         Payload |-> Slice(s.clientBuf, 4, 4 + payloadLen) ],
               processed |-> dataLen,
               fault |-> "none" ]

\* the number of segments the loop of clearProcessedBytes steps over, or -1
\* when it indexes past the last one
RECURSIVE checkedSegs(_, _, _, _)
checkedSegs(segs, processed, bytes, n) ==
    IF bytes >= processed THEN n
    ELSE IF n >= Len(segs) THEN -1
    ELSE checkedSegs(segs, processed, bytes + segs[n + 1].length, n + 1)

clearProcessedBytes(s, processed) ==
    LET s1 == [s EXCEPT !.clientBuf = Drop(@, processed),
                        !.clientCap = @ - processed]
        n == checkedSegs(s.clientSegs, processed, 0, 0)
    IN  IF n < 0 THEN Panic(s1, "index out of range")
        ELSE Ok([s1 EXCEPT !.clientSegs = Drop(@, n)])

RECURSIVE parseClientBuffer(_)
parseClientBuffer(s) ==
    IF ~(Len(s.clientBuf) > 3) THEN Ok(s)
    ELSE
    LET r == IF HaveTypeByte(clientMessageType(s))
             THEN tryCreateTypedMessage(s)
             ELSE tryCreateUntypedMessage(s)
    IN  IF r.fault # "none" THEN Panic(s, r.fault)
        ELSE IF r.processed > 0
        THEN LET s1 == [s EXCEPT
                          !.needCommandCompleteIndex =
                              IF ~NeedCommandCompleteAnswer(r.msg.Type) THEN @ + 1 ELSE @,
                          !.needReadyForQueryIndex =
                              IF ~NeedReadyForQueryAnswer(r.msg.Type) THEN @ + 1 ELSE @,
                          !.completed = Append(@, r.msg)]
                 c == clearProcessedBytes(s1, r.processed)
             IN  IF c.fault # "none" THEN c ELSE parseClientBuffer(c.st)
        ELSE Ok(s)

addClientData(s, data, timestamp) ==
    parseClientBuffer(
        [s EXCEPT !.clientCap = appendCap(@, Len(s.clientBuf), Len(data)),
                  !.clientBuf = @ \o data,
                  !.clientSegs = Append(@, [length |-> Len(data), ts |-> timestamp])])


(* ---------------------------- server direction ------------------------ *)

\* faulty variant of assignCommandComplete: the cursor counts from the end
assignCommandCompleteFromEnd(s, ts) ==
    IF s.needCommandCompleteIndex >= Len(s.completed)
    THEN Panic(s, "index out of range")
    ELSE Ok([s EXCEPT
               !.completed[Len(s.completed) - s.needCommandCompleteIndex]
                   .CommandCompleteTimestamp = ts,
               !.needCommandCompleteIndex = @ + 1])

\* faulty variant of assignCommandComplete: the cursor is not advanced
assignCommandCompleteNoAdvance(s, ts) ==
    IF s.needCommandCompleteIndex >= Len(s.completed)
    THEN Panic(s, "index out of range")
    ELSE Ok([s EXCEPT
               !.completed[s.needCommandCompleteIndex + 1].CommandCompleteTimestamp = ts])

\* faulty variant of assignCommandComplete: no message to stamp advances the
\* cursor instead of panicking
assignCommandCompleteUnchecked(s, ts) ==
    IF s.needCommandCompleteIndex >= Len(s.completed)
    THEN Ok([s EXCEPT !.needCommandCompleteIndex = @ + 1])
    ELSE Ok([s EXCEPT
               !.completed[s.needCommandCompleteIndex + 1].CommandCompleteTimestamp = ts,
               !.needCommandCompleteIndex = @ + 1])

assignCommandComplete(s, ts) ==
    IF s.needCommandCompleteIndex >= Len(s.completed)
    THEN Panic(s, "index out of range")
    ELSE Ok([s EXCEPT
               !.completed[s.needCommandCompleteIndex + 1].CommandCompleteTimestamp = ts,
               !.needCommandCompleteIndex = @ + 1])

\* defined by the code, called from nowhere
assignReadyForQuery(s, ts) ==
    IF s.needReadyForQueryIndex >= Len(s.completed)
    THEN Panic(s, "index out of range")
    ELSE Ok([s EXCEPT
               !.completed[s.needReadyForQueryIndex + 1].ReadyForQueryTimestamp = ts,
               !.needReadyForQueryIndex = @ + 1])

\* The framing loop of parseServerBuffer.  The result carries, beside the
\* stream, the offset reached and the frames the loop stepped over (type
\* byte, 0 for a length-only frame, and the timestamp of the first byte).
RECURSIVE serverFrames(_, _, _)
serverFrames(s, processed, framed) ==
    LET rem == Len(s.serverBuf) - processed
        stop == [st |-> s, processed |-> processed, framed |-> framed, fault |-> "none"]
    IN
    IF ~(rem > 0) \/ rem < 5 THEN stop
    ELSE
    LET remaining == Drop(s.serverBuf, processed)
        first == remaining[1]
        ts == timestampByOffset(s.serverSegs, processed)
    IN
    IF isASCIIType(first)
    THEN LET lenBytes == Slice(remaining, 1, 5)
             total == ServerTotal(lenBytes)
             a == IF first = MessageTypeCommandComplete
                  THEN assignCommandComplete(s, ts)
                  ELSE Ok(s)
             seen == Append(framed, [type |-> first, ts |-> ts])
         IN  IF lenBytes = <<0, 0, 0, 0>> THEN stop
             ELSE IF rem < total THEN stop
             ELSE IF a.fault # "none"
             THEN [st |-> a.st, processed |-> processed, framed |-> seen,
                   fault |-> a.fault]
             ELSE IF total = 0 /\ first # MessageTypeCommandComplete
             THEN [st |-> s, processed |-> processed, framed |-> seen,
                   fault |-> "loop without progress"]
             ELSE serverFrames(a.st, processed + total, seen)
    ELSE LET lenBytes == Slice(remaining, 0, 4)
             total == BigEndianUint32(lenBytes)
         IN  IF lenBytes = <<0, 0, 0, 0>> THEN stop
             ELSE IF rem < total THEN stop
             ELSE serverFrames(s, processed + total,
                               Append(framed, [type |-> 0, ts |-> ts]))

\* faulty variant of compactSegs: a segment consumed in part is dropped whole
RECURSIVE compactSegsWhole(_, _)
compactSegsWhole(segs, rem) ==
    IF segs = << >> THEN << >>
    ELSE IF rem <= 0 THEN segs
    ELSE compactSegsWhole(Tail(segs), rem - Head(segs).length)

\* The compaction loop of parseServerBuffer over serverSegs.
RECURSIVE compactSegs(_, _)
compactSegs(segs, rem) ==
    IF segs = << >> THEN << >>
    ELSE IF rem <= 0 THEN segs
    ELSE IF rem < Head(segs).length
    THEN <<[Head(segs) EXCEPT !.length = @ - rem]>> \o compactSegs(Tail(segs), 0)
    ELSE compactSegs(Tail(segs), rem - Head(segs).length)

parseServerBuffer(s) ==
    LET r == serverFrames(s, 0, << >>)
        t == r.st
    IN  IF r.fault # "none" THEN r
        ELSE IF r.processed > 0
        THEN IF r.processed >= Len(t.serverBuf)
             THEN [r EXCEPT !.st = [t EXCEPT !.serverBuf = << >>, !.serverSegs = << >>]]
             ELSE [r EXCEPT !.st = [t EXCEPT
                      !.serverBuf = Drop(@, r.processed),
                      !.serverSegs = compactSegs(@, r.processed)]]
        ELSE r

addServerData(s, data, timestamp) ==
    parseServerBuffer(
        [s EXCEPT !.serverBuf = @ \o data,
                  !.serverSegs = Append(@, [length |-> Len(data), ts |-> timestamp])])


(* ------------------------------ the manager --------------------------- *)

VARIABLES
    streams,   \* TCPStreamManager.streams: flow key -> TCPStream
    fault,     \* "none", or the run-time panic that ended the program
    err,       \* what the last AddPacket returned ("" for nil)
    pc,        \* "ingest" while the packets are fed, "collected" afterwards
    out,       \* what CollectMessages returned
    now,       \* capture timestamp of the last packet fed
    npkts,     \* packets fed so far
    sent,      \* history: flow key -> the client bytes appended to the flow
    framed     \* history: flow key -> the server frames stepped over

\* a client direction whose buffer is too long to enumerate (see SizedSpec)
VARIABLES big

\* the packets of the capture, in order, each with its direction, payload
\* and capture timestamp: in EdgeSpec and StampSpec the packets handed to
\* AddPacket so far, in IsolationSpec the packets extracted from the file
VARIABLES capture

\* one call of waitForReady: its locals and the bytes the peer sends
\* (see WaitSpec)
VARIABLES waiting

\* ReplayMessages: its arguments, its locals and the network (see ReplaySpec)
VARIABLES
    messages,      \* the argument, sorted in place by the call
    config,        \* the Config argument: MaxRetries and Rate
    rpc,           \* position of the driver in ReplayMessages
    idx,           \* i of the loop over messages (0-based)
    conn,          \* 0 for a nil conn, else the number of the connection
    attempt,       \* attempt of the write loop
    writeErr,      \* writeErr != nil
    successCount,
    errorCount,
    replayStart,   \* time.Now() at line 128
    ret,           \* what ReplayMessages returned: "", "nil" or "error"
    wall,          \* the wall clock, in ticks
    dials,         \* connections opened so far: they are numbered 1..dials
    closed,        \* the connections Close() was called on
    wrote,         \* history: the messages written successfully before the last
    lastWrite,     \* history: the last successful write
    attempts,      \* history: the write attempts made for the current message
    waits          \* history: the calls of waitForReady

managerVars == <<streams, fault, err, pc, out, now, npkts, sent, framed>>

replayVars ==
    <<messages, config, rpc, idx, conn, attempt, writeErr, successCount,
      errorCount, replayStart, ret, wall, dials, closed, wrote, lastWrite,
      attempts, waits>>

vars == <<managerVars, big, capture, waiting, replayVars>>

ServerEndpoint == [ip |-> "10.0.0.1", port |-> 5432]

ClientEndpoints == { [ip |-> "10.0.0.2", port |-> 40000] }

\* fmt.Sprintf("%s:%d->%s:%d", ...) of AddPacket: the key names the four parts
FlowKey(ipA, portA, ipB, portB) == <<ipA, portA, ipB, portB>>

KeyOf(client) == FlowKey(client.ip, client.port, ServerEndpoint.ip, ServerEndpoint.port)

QueryFrame == <<MessageTypeQuery, 0, 0, 0, 4>>

ParseFrame == <<MessageTypeParse, 0, 0, 0, 4>>

StartupFrame == <<0, 0, 0, 4>>

QueryHead == <<MessageTypeQuery, 0, 0, 0, 8>>

QueryTail == <<1, 2, 3, 4>>

CommandCompleteFrame == <<MessageTypeCommandComplete, 0, 0, 0, 4>>

ReadyForQueryFrame == <<MessageTypeReadyForQuery, 0, 0, 0, 5, 73>>

RowDescriptionFrame == <<MessageTypeRowDescription, 0, 0, 0, 4>>

CommandCompleteHead == <<MessageTypeCommandComplete, 0, 0, 0, 8>>

\* Segment payloads of the client side: whole frames, a frame cut in two,
\* two frames in one segment, a frame followed by the head of the next, and
\* a payload too short for AddPacket.
ClientPayloads ==
    { QueryFrame, ParseFrame, StartupFrame, QueryHead, QueryTail,
      ParseFrame \o QueryFrame, StartupFrame \o QueryHead,
      <<MessageTypeQuery, 0, 0>> }

\* Segment payloads of the server side.
ServerPayloads ==
    { CommandCompleteFrame, ReadyForQueryFrame,
      CommandCompleteFrame \o ReadyForQueryFrame,
      RowDescriptionFrame \o CommandCompleteHead, QueryTail }

\* the manager after NewTCPStreamManager, before the first packet
ManagerIdle ==
    /\ streams = << >>
    /\ fault = "none"
    /\ err = ""
    /\ pc = "ingest"
    /\ out = << >>
    /\ now = 1
    /\ npkts = 0
    /\ sent = << >>
    /\ framed = << >>

\* no packet is recorded
CaptureIdle == capture = << >>

\* no sized buffer is fed
SizedIdle == big = [head |-> << >>, len |-> 0, segs |-> << >>,
                    completed |-> << >>, fault |-> "none", fed |-> 0]

\* ReplayMessages is not called
ReplayIdle ==
    /\ messages = << >>
    /\ config = [MaxRetries |-> 0, Rate |-> 1]
    /\ rpc = "idle"
    /\ idx = 0
    /\ conn = 0
    /\ attempt = 0
    /\ writeErr = FALSE
    /\ successCount = 0
    /\ errorCount = 0
    /\ replayStart = 0
    /\ ret = ""
    /\ wall = 0
    /\ dials = 0
    /\ closed = {}
    /\ wrote = << >>
    /\ lastWrite = << >>
    /\ attempts = << >>
    /\ waits = << >>

\* waitForReady is not called
WaitIdle ==
    waiting = [pending |-> << >>, buf |-> << >>, got |-> << >>, reads |-> 0,
               ret |-> "idle", conn |-> 0]

Init == ManagerIdle /\ CaptureIdle /\ SizedIdle /\ WaitIdle /\ ReplayIdle

\* m.streams after the lookup of AddPacket, which creates a missing stream
WithStream(key) ==
    IF key \in DOMAIN streams THEN streams
    ELSE [k \in DOMAIN streams \cup {key} |->
            IF k = key THEN NewTCPStream ELSE streams[k]]

History(h, key) == IF key \in DOMAIN h THEN h[key] ELSE << >>

Extend(h, key, more) ==
    [k \in DOMAIN h \cup {key} |-> IF k = key THEN History(h, key) \o more ELSE h[k]]

\* faulty variant of packetKey: the key of a server packet is not turned round
packetKeyAsSeen(ipSrc, ipDst, portSrc, portDst, isFromServer) ==
    FlowKey(ipSrc, portSrc, ipDst, portDst)

\* the key AddPacket files a packet under
packetKey(ipSrc, ipDst, portSrc, portDst, isFromServer) ==
    IF isFromServer
    THEN FlowKey(ipDst, portDst, ipSrc, portSrc)
    ELSE FlowKey(ipSrc, portSrc, ipDst, portDst)

AddPacket(data, timestamp, ipSrc, ipDst, portSrc, portDst, serverIp, serverPort) ==
    LET isFromServer == ipSrc = serverIp /\ portSrc = serverPort
        key == packetKey(ipSrc, ipDst, portSrc, portDst, isFromServer)
        table == WithStream(key)
    IN
    /\ pc = "ingest"
    /\ fault = "none"
    /\ npkts < MaxPackets
    /\ npkts' = npkts + 1
    /\ now' = timestamp
    /\ UNCHANGED <<pc, out, big, waiting, replayVars>>
    /\ IF Len(data) < 4
       THEN /\ streams' = table
            /\ err' = "data length less than 4 bytes"
            /\ UNCHANGED <<fault, sent, framed>>
       ELSE IF isFromServer
       THEN LET r == addServerData(table[key], data, timestamp)
            IN  /\ streams' = [table EXCEPT ![key] = r.st]
                /\ fault' = r.fault
                /\ framed' = Extend(framed, key, r.framed)
                /\ err' = ""
                /\ UNCHANGED sent
       ELSE LET r == addClientData(table[key], data, timestamp)
            IN  /\ streams' = [table EXCEPT ![key] = r.st]
                /\ fault' = r.fault
                /\ sent' = Extend(sent, key, data)
                /\ err' = ""
                /\ UNCHANGED framed

\* The packets are sorted by timestamp before they are fed.
NextTimes == { t \in {now, now + 1} : t <= MaxTime }

ClientPacket ==
    /\ \E c \in ClientEndpoints, data \in ClientPayloads, t \in NextTimes :
          AddPacket(data, t, c.ip, ServerEndpoint.ip, c.port, ServerEndpoint.port,
                    ServerEndpoint.ip, ServerEndpoint.port)
    /\ UNCHANGED capture

ServerPacket ==
    /\ \E c \in ClientEndpoints, data \in ServerPayloads, t \in NextTimes :
          AddPacket(data, t, ServerEndpoint.ip, c.ip, ServerEndpoint.port, c.port,
                    ServerEndpoint.ip, ServerEndpoint.port)
    /\ UNCHANGED capture

\* The orders in which the range over the map can visit the keys.
RECURSIVE Orders(_)
Orders(keys) ==
    IF keys = {} THEN { << >> }
    ELSE UNION { { <<k>> \o o : o \in Orders(keys \ {k}) } : k \in keys }

\* faulty variant of CollectMessages: the streams are reset and not deleted
CollectMessagesNoDelete ==
    /\ pc = "ingest"
    /\ fault = "none"
    /\ \E order \in Orders(DOMAIN streams) :
          out' = Flatten([i \in 1..Len(order) |-> streams[order[i]].completed])
    /\ streams' = [k \in DOMAIN streams |-> NewTCPStream]
    /\ sent' = << >>
    /\ framed' = << >>
    /\ pc' = "collected"
    /\ UNCHANGED <<fault, err, now, npkts, big, capture, waiting, replayVars>>

CollectMessages ==
    /\ pc = "ingest"
    /\ fault = "none"
    /\ \E order \in Orders(DOMAIN streams) :
          out' = Flatten([i \in 1..Len(order) |-> streams[order[i]].completed])
    /\ streams' = << >>
    /\ sent' = << >>
    /\ framed' = << >>
    /\ pc' = "collected"
    /\ UNCHANGED <<fault, err, now, npkts, big, capture, waiting, replayVars>>

Next == ClientPacket \/ ServerPacket \/ CollectMessages

Spec == Init /\ [][Next]_vars


(* ------------------------- several flows, reuse ------------------------ *)

\* The manager fed the packets of two conversations, collected, and fed
\* again.

\* packets handed to AddPacket in one run of FlowSpec
MaxFlowPackets == 3

\* two clients: one on a host of its own, one on the server's host
FlowClients ==
    { [ip |-> "10.0.0.2", port |-> 40000], [ip |-> ServerEndpoint.ip, port |-> 40000] }

FlowClientPayloads == { QueryFrame, StartupFrame, QueryHead, <<MessageTypeQuery, 0, 0>> }

FlowServerPayloads == { CommandCompleteFrame, ReadyForQueryFrame, <<MessageTypeQuery, 0, 0>> }

\* a packet from client c to the server
FlowClientPacket(c) ==
    /\ npkts < MaxFlowPackets
    /\ \E data \in FlowClientPayloads, t \in NextTimes :
          AddPacket(data, t, c.ip, ServerEndpoint.ip, c.port, ServerEndpoint.port,
                    ServerEndpoint.ip, ServerEndpoint.port)
    /\ UNCHANGED capture

\* a packet from the server to client c
FlowServerPacket(c) ==
    /\ npkts < MaxFlowPackets
    /\ \E data \in FlowServerPayloads, t \in NextTimes :
          AddPacket(data, t, ServerEndpoint.ip, c.ip, ServerEndpoint.port, c.port,
                    ServerEndpoint.ip, ServerEndpoint.port)
    /\ UNCHANGED capture

\* the caller goes on using the manager after CollectMessages returned
Resume ==
    /\ pc = "collected"
    /\ fault = "none"
    /\ pc' = "ingest"
    /\ UNCHANGED <<streams, fault, err, out, now, npkts, sent, framed, big, capture,
                   waiting, replayVars>>

FlowNext ==
    \/ \E c \in FlowClients : FlowClientPacket(c)
    \/ \E c \in FlowClients : FlowServerPacket(c)
    \/ CollectMessages
    \/ Resume

FlowSpec == Init /\ [][FlowNext]_vars


(* ------------------- a client buffer kept by its size ------------------ *)

\* tryCreateTypedMessage and tryCreateUntypedMessage read the first bytes of
\* clientBuf and its length, and copy the rest without looking at it.  A
\* buffer of megabytes is kept here as its first bytes (head), its length
\* (len) and its segment log; a message as its type, its Len and the length
\* of its payload.  The segments fed are a whole frame header, or payload
\* bytes of the frame at the front, never bytes of the frame after it.

\* segments fed to the sized buffer in one run
MaxSegments == 5

\* the largest frame the specification lets a parser accept (10 MiB)
MAX_FRAME == 10 * 1024 * 1024

\* binary.BigEndian.Uint32 over the length field of the frame at the front
sizedLenField(b) ==
    IF HaveTypeByte(b.head[1]) THEN BigEndianUint32(SubSeq(b.head, 2, 5))
    ELSE BigEndianUint32(SubSeq(b.head, 1, 4))

\* the bytes the frame at the front takes: 1+dataLen typed, dataLen untyped
sizedTotal(b) ==
    IF HaveTypeByte(b.head[1]) THEN 1 + sizedLenField(b) ELSE sizedLenField(b)

\* tryCreateTypedMessage / tryCreateUntypedMessage on the sized buffer
tryCreateMessageSized(b) ==
    LET dataLen == sizedLenField(b)
        total == sizedTotal(b)
        payloadLen == dataLen - 4
    IN  IF b.len < total
        THEN [msg |-> << >>, processed |-> 0, fault |-> "none"]
        ELSE IF payloadLen < 0
        THEN [msg |-> << >>, processed |-> 0, fault |-> "makeslice: len out of range"]
        ELSE [ msg |-> [ Type |-> IF HaveTypeByte(b.head[1]) THEN b.head[1]
                                  ELSE ClientMessageTypeOnlyLength,
                         Len |-> dataLen,
                         PayloadLen |-> payloadLen ],
               processed |-> total,
               fault |-> "none" ]

\* clearProcessedBytes on the sized buffer: the frame consumed ends the buffer
clearProcessedBytesSized(b, processed) ==
    LET n == checkedSegs(b.segs, processed, 0, 0)
        b1 == [b EXCEPT !.len = @ - processed, !.head = << >>]
    IN  IF n < 0 THEN [b1 EXCEPT !.fault = "index out of range"]
        ELSE [b1 EXCEPT !.segs = Drop(@, n)]

RECURSIVE parseClientBufferSized(_)
parseClientBufferSized(b) ==
    IF ~(b.len > 3) THEN b
    ELSE LET r == tryCreateMessageSized(b)
         IN  IF r.fault # "none" THEN [b EXCEPT !.fault = r.fault]
             ELSE IF r.processed > 0
             THEN LET c == clearProcessedBytesSized(
                               [b EXCEPT !.completed = Append(@, r.msg)], r.processed)
                  IN  IF c.fault # "none" THEN c ELSE parseClientBufferSized(c)
             ELSE b

\* addClientData with a segment of n bytes that starts with the bytes first
addClientDataSized(b, first, n) ==
    parseClientBufferSized(
        [b EXCEPT !.head = IF b.len = 0 THEN first ELSE @,
                  !.len = @ + n,
                  !.segs = Append(@, [length |-> n, ts |-> b.fed + 1]),
                  !.fed = @ + 1])

\* declared lengths: a small one, the limit, and two over the limit
SizedLengths == { 8, MAX_FRAME, MAX_FRAME + 1, MAX_FRAME + 4096 }

\* frame headers: a Query frame and a length-only frame of each length
SizedHeaders ==
    { <<MessageTypeQuery>> \o PutUint32(L) : L \in SizedLengths }
        \cup { PutUint32(L) : L \in SizedLengths }

\* the bytes of the frame at the front that are not buffered yet
sizedMissing(b) == sizedTotal(b) - b.len

\* a segment carrying a whole frame header arrives on the empty buffer
SizedHeader ==
    \E h \in SizedHeaders :
        /\ big.fault = "none"
        /\ big.fed < MaxSegments
        /\ big.len = 0
        /\ big' = addClientDataSized(big, h, Len(h))
        /\ UNCHANGED <<managerVars, capture, waiting, replayVars>>

\* a segment carrying payload bytes of the frame at the front arrives
SizedPayload ==
    /\ big.fault = "none"
    /\ big.fed < MaxSegments
    /\ big.len > 0
    /\ \E n \in { 1, 4096, MAX_FRAME \div 2, sizedMissing(big) } :
          /\ 1 <= n
          /\ n <= sizedMissing(big)
          /\ big' = addClientDataSized(big, << >>, n)
    /\ UNCHANGED <<managerVars, capture, waiting, replayVars>>

SizedNext == SizedHeader \/ SizedPayload

SizedSpec == Init /\ [][SizedNext]_vars


(* ---------------------------- the replay driver ------------------------ *)

\* ReplayMessages as the steps between its blocking calls.  Connections are
\* numbered in the order net.Dial opened them; every connect, write and wait
\* may succeed or fail.  A capture timestamp and the wall clock count ticks
\* of half a second.

\* messages in the list given to ReplayMessages
MaxMessages == 2
\* largest config.MaxRetries (the flag's default is 3)
MaxMaxRetries == 3

\* first-byte timestamps of the messages given
ReplayTimes == { 0, 2, 6 }

\* config.Rate
Rates == { 1, 2 }

\* readyTimeout, 40 s, in ticks
readyTimeout == 80

\* the seq-th message framed on a flow, with a payload that names it: flow 1
\* sends Query messages, flow 2 Parse messages
CapturedMessage(flow, seq, ts) ==
    [ FirstTCPPacketTimestamp |-> ts,
      LastTCPPacketTimestamp |-> ts,
      CommandCompleteTimestamp |-> 0,
      ReadyForQueryTimestamp |-> 0,
      Type |-> IF flow = 1 THEN MessageTypeQuery ELSE MessageTypeParse,
      Len |-> 6,
      Payload |-> <<flow, seq>> ]

\* the completed list of a flow with n messages: first-byte timestamps do
\* not decrease along it
FlowCompleted(flow, n) ==
    { [i \in 1..n |-> CapturedMessage(flow, i, t[i])] :
        t \in { u \in [1..n -> ReplayTimes] : \A i \in 1..(n - 1) : u[i] <= u[i + 1] } }

\* what CollectMessages returns for two flows: the completed list of the flow
\* the range visits first (called 1), then that of the other
Collected ==
    { << >> } \cup
    UNION { { a \o b : a \in FlowCompleted(1, k), b \in FlowCompleted(2, n - k) } :
              <<n, k>> \in { nk \in (1..MaxMessages) \X (1..MaxMessages) : nk[2] <= nk[1] } }

\* sort.Slice by FirstTCPPacketTimestamp: the result is a permutation in
\* non-decreasing order of the key; the order of equal keys is not specified
SortSlice(list) ==
    LET n == Len(list)
        perms == { f \in [1..n -> 1..n] :
                     /\ \A i, j \in 1..n : f[i] = f[j] => i = j
                     /\ \A i \in 1..(n - 1) :
                           ~(list[f[i + 1]].FirstTCPPacketTimestamp
                                < list[f[i]].FirstTCPPacketTimestamp) }
    IN  { [i \in 1..n |-> list[f[i]]] : f \in perms }

\* connectTCP: the connection net.Dial returns (0: none, with an error)
connectTCP(ok) == IF ok THEN dials + 1 ELSE 0

\* targetTime of the loop body for message m
targetTime(m) ==
    replayStart
        + (m.FirstTCPPacketTimestamp - messages[1].FirstTCPPacketTimestamp)
              \div config.Rate

ReplayInit ==
    /\ ManagerIdle
    /\ CaptureIdle
    /\ SizedIdle
    /\ WaitIdle
    /\ messages \in Collected
    /\ config \in [MaxRetries : 0..MaxMaxRetries, Rate : Rates]
    /\ rpc = "call"
    /\ idx = 0
    /\ conn = 0
    /\ attempt = 0
    /\ writeErr = FALSE
    /\ successCount = 0
    /\ errorCount = 0
    /\ replayStart = 0
    /\ ret = ""
    /\ wall = 0
    /\ dials = 0
    /\ closed = {}
    /\ wrote = << >>
    /\ lastWrite = << >>
    /\ attempts = << >>
    /\ waits = << >>

\* the driver variables no action but the named ones changes
ReplayKeep(changed) ==
    /\ UNCHANGED <<streams, err, pc, out, now, npkts, sent, framed, big, capture,
                   waiting, config>>
    /\ IF "fault" \in changed THEN TRUE ELSE UNCHANGED fault
    /\ IF "messages" \in changed THEN TRUE ELSE UNCHANGED messages
    /\ IF "idx" \in changed THEN TRUE ELSE UNCHANGED idx
    /\ IF "conn" \in changed THEN TRUE ELSE UNCHANGED <<conn, dials>>
    /\ IF "closed" \in changed THEN TRUE ELSE UNCHANGED closed
    /\ IF "attempt" \in changed THEN TRUE ELSE UNCHANGED <<attempt, writeErr>>
    /\ IF "successCount" \in changed THEN TRUE ELSE UNCHANGED successCount
    /\ IF "errorCount" \in changed THEN TRUE ELSE UNCHANGED errorCount
    /\ IF "replayStart" \in changed THEN TRUE ELSE UNCHANGED replayStart
    /\ IF "ret" \in changed THEN TRUE ELSE UNCHANGED ret
    /\ IF "wall" \in changed THEN TRUE ELSE UNCHANGED wall
    /\ IF "wrote" \in changed THEN TRUE ELSE UNCHANGED <<wrote, lastWrite>>
    /\ IF "attempts" \in changed THEN TRUE ELSE UNCHANGED attempts
    /\ IF "waits" \in changed THEN TRUE ELSE UNCHANGED waits

\* lines 110-112: an empty list is refused
ReplayEmpty ==
    /\ rpc = "call"
    /\ fault = "none"
    /\ Len(messages) = 0
    /\ ret' = "error"
    /\ rpc' = "returned"
    /\ ReplayKeep({"ret"})

\* lines 114-128: sort, first connect, firstTime and replayStart
ReplayStart ==
    /\ rpc = "call"
    /\ fault = "none"
    /\ Len(messages) # 0
    /\ messages' \in SortSlice(messages)
    /\ \E ok \in BOOLEAN :
          /\ conn' = connectTCP(ok)
          /\ dials' = IF ok THEN dials + 1 ELSE dials
    /\ replayStart' = wall
    /\ rpc' = "loop"
    /\ ReplayKeep({"messages", "conn", "replayStart"})

\* where the loop body goes after line 145: into the write loop if it has
\* an iteration to make
writeLoop(n) == IF n < config.MaxRetries THEN "write" ELSE "written"

\* lines 130-147: the head of the loop body.  The wait until targetTime is
\* computed and the body of the `if` is empty: no time passes.
NextMessage ==
    /\ rpc = "loop"
    /\ fault = "none"
    /\ idx < Len(messages)
    /\ attempt' = 0
    /\ writeErr' = FALSE
    /\ attempts' = << >>
    /\ IF conn = 0
       THEN \E ok \in BOOLEAN :
               IF ok
               THEN /\ conn' = connectTCP(TRUE)
                    /\ dials' = dials + 1
                    /\ rpc' = writeLoop(0)
                    /\ UNCHANGED <<errorCount, idx>>
               ELSE /\ errorCount' = errorCount + 1
                    /\ idx' = idx + 1
                    /\ rpc' = "loop"
                    /\ UNCHANGED <<conn, dials>>
       ELSE /\ rpc' = writeLoop(0)
            /\ UNCHANGED <<conn, dials, errorCount, idx>>
    /\ ReplayKeep({"attempt", "attempts", "conn", "errorCount", "idx"})

\* lines 148-164: one iteration of the write loop.  A write on a nil conn is
\* a nil-pointer panic.
WriteAttempt ==
    /\ rpc = "write"
    /\ fault = "none"
    /\ IF conn = 0
       THEN /\ fault' = "nil pointer dereference"
            /\ attempts' = Append(attempts, [conn |-> 0, ok |-> FALSE])
            /\ UNCHANGED <<rpc, conn, dials, closed, attempt, writeErr, wrote, lastWrite>>
       ELSE \E ok \in BOOLEAN :
               /\ attempts' = Append(attempts, [conn |-> conn, ok |-> ok])
               /\ UNCHANGED fault
               /\ IF ok
                  THEN /\ writeErr' = FALSE
                       /\ rpc' = "written"
                       /\ wrote' = Append(wrote, idx)
                       /\ lastWrite' = [idx |-> idx, conn |-> conn, wall |-> wall]
                       /\ UNCHANGED <<conn, dials, closed, attempt>>
                  ELSE /\ writeErr' = TRUE
                       /\ closed' = closed \cup {conn}
                       /\ IF attempt < config.MaxRetries - 1
                          THEN \E re \in BOOLEAN :
                                  /\ conn' = connectTCP(re)
                                  /\ dials' = IF re THEN dials + 1 ELSE dials
                          ELSE /\ conn' = 0
                               /\ UNCHANGED dials
                       /\ attempt' = attempt + 1
                       /\ rpc' = writeLoop(attempt + 1)
                       /\ UNCHANGED <<wrote, lastWrite>>
    /\ ReplayKeep({"fault", "attempts", "conn", "closed", "attempt", "wrote"})

\* faulty variant of isLast: every message is taken for the last
isLastAlways(i) == TRUE

\* i == len(messages)-1
isLast(i) == i = Len(messages) - 1

\* faulty variant of AfterWrite: a failed write is not counted
AfterWriteUncounted ==
    /\ rpc = "written"
    /\ fault = "none"
    /\ IF writeErr
       THEN /\ idx' = idx + 1
            /\ rpc' = "loop"
            /\ UNCHANGED <<errorCount, successCount>>
       ELSE IF ~isLast(idx)
       THEN /\ rpc' = "wait"
            /\ UNCHANGED <<errorCount, successCount, idx>>
       ELSE /\ successCount' = successCount + 1
            /\ idx' = idx + 1
            /\ rpc' = "loop"
            /\ UNCHANGED errorCount
    /\ ReplayKeep({"errorCount", "successCount", "idx"})

\* lines 165-171 and 181-190: after the write loop
AfterWrite ==
    /\ rpc = "written"
    /\ fault = "none"
    /\ IF writeErr
       THEN /\ errorCount' = errorCount + 1
            /\ idx' = idx + 1
            /\ rpc' = "loop"
            /\ UNCHANGED successCount
       ELSE IF ~isLast(idx)
       THEN /\ rpc' = "wait"
            /\ UNCHANGED <<errorCount, successCount, idx>>
       ELSE /\ successCount' = successCount + 1
            /\ idx' = idx + 1
            /\ rpc' = "loop"
            /\ UNCHANGED errorCount
    /\ ReplayKeep({"errorCount", "successCount", "idx"})

\* what a call of waitForReady (lines 35-103) returns
WaitOutcomes ==
    { "ready", "timeout waiting ReadyForQuery", "connection closed by remote",
      "read error", "invalid server length" }

\* the ticks the call takes: it gives up once readyTimeout has passed, and a
\* peer that answers or fails is taken to do so at once
waitTime(r) == IF r = "timeout waiting ReadyForQuery" THEN readyTimeout ELSE 0

\* faulty variant of WaitForReady: after a failed wait the connection is
\* closed and kept
WaitForReadyKeepsConn ==
    /\ rpc = "wait"
    /\ fault = "none"
    /\ \E r \in IF conn = 0 THEN {"nil connection"} ELSE WaitOutcomes :
          /\ wall' = wall + waitTime(r)
          /\ waits' = Append(waits, idx)
          /\ IF r = "ready"
             THEN /\ successCount' = successCount + 1
                  /\ UNCHANGED <<errorCount, closed, conn, dials>>
             ELSE /\ errorCount' = errorCount + 1
                  /\ closed' = closed \cup {conn}
                  /\ UNCHANGED <<successCount, conn, dials>>
    /\ idx' = idx + 1
    /\ rpc' = "loop"
    /\ ReplayKeep({"wall", "waits", "successCount", "errorCount", "closed", "conn", "idx"})

\* lines 172-190: waitForReady returns
WaitForReady ==
    /\ rpc = "wait"
    /\ fault = "none"
    /\ \E r \in IF conn = 0 THEN {"nil connection"} ELSE WaitOutcomes :
          /\ wall' = wall + waitTime(r)
          /\ waits' = Append(waits, idx)
          /\ IF r = "ready"
             THEN /\ successCount' = successCount + 1
                  /\ UNCHANGED <<errorCount, closed, conn, dials>>
             ELSE /\ errorCount' = errorCount + 1
                  /\ closed' = closed \cup {conn}
                  /\ conn' = 0
                  /\ UNCHANGED <<successCount, dials>>
    /\ idx' = idx + 1
    /\ rpc' = "loop"
    /\ ReplayKeep({"wall", "waits", "successCount", "errorCount", "closed", "conn", "idx"})

\* lines 192-207: the connection is closed and the summary decides the result
ReplayFinish ==
    /\ rpc = "loop"
    /\ fault = "none"
    /\ idx = Len(messages)
    /\ closed' = IF conn # 0 THEN closed \cup {conn} ELSE closed
    /\ ret' = IF errorCount > 0 THEN "error" ELSE "nil"
    /\ rpc' = "returned"
    /\ ReplayKeep({"closed", "ret"})

ReplayNext ==
    \/ ReplayEmpty
    \/ ReplayStart
    \/ NextMessage
    \/ WriteAttempt
    \/ AfterWrite
    \/ WaitForReady
    \/ ReplayFinish

ReplaySpec == ReplayInit /\ [][ReplayNext]_vars


(* --------------------- packets with a capture history ------------------ *)

\* a packet from client c to the server, recorded in the capture history
CapturedClientPacket(payloads, bound) ==
    /\ npkts < bound
    /\ \E c \in ClientEndpoints, data \in payloads, t \in NextTimes :
          /\ AddPacket(data, t, c.ip, ServerEndpoint.ip, c.port, ServerEndpoint.port,
                       ServerEndpoint.ip, ServerEndpoint.port)
          /\ capture' = Append(capture, [server |-> FALSE, data |-> data, ts |-> t])

\* a packet from the server to client c, recorded in the capture history
CapturedServerPacket(payloads, bound) ==
    /\ npkts < bound
    /\ \E c \in ClientEndpoints, data \in payloads, t \in NextTimes :
          /\ AddPacket(data, t, ServerEndpoint.ip, c.ip, ServerEndpoint.port, c.port,
                       ServerEndpoint.ip, ServerEndpoint.port)
          /\ capture' = Append(capture, [server |-> TRUE, data |-> data, ts |-> t])


(* ------------------------ frames at the edge cases --------------------- *)

\* EdgeSpec feeds one flow with the frames the framing rules single out:
\* several frames in one segment, a declared length of 0 or below 4, a first
\* byte that is neither 0 nor a letter, a buffer of exactly 4 bytes, and a
\* server frame whose length field is FF FF FF FF.

\* packets fed in EdgeSpec
MaxEdgePackets == 3

\* Parse with a payload of one byte, as in a captured extended query
ParseOne == <<MessageTypeParse, 0, 0, 0, 5, 0>>

\* a typed frame declaring L = 0
QueryZero == <<MessageTypeQuery, 0, 0, 0, 0>>

\* a length-only frame declaring L = 0
LengthZero == <<0, 0, 0, 0>>

\* a length-only frame declaring L = 3
LengthThree == <<0, 0, 0, 3>>

\* the head of a length-only frame declaring L = 8
LengthEight == <<0, 0, 0, 8>>

\* a frame whose first byte is neither 0 nor an ASCII letter
ControlFrame == <<1, 0, 0, 0, 4>>

\* the first 4 bytes of QueryHead \o QueryTail, and the 5 that follow
QueryFour == <<MessageTypeQuery, 0, 0, 0>>

QueryRest == <<8, 1, 2, 3, 4>>

\* a typed server frame declaring L = 2^32 - 1
RowDescriptionWrap == <<MessageTypeRowDescription, 255, 255, 255, 255>>

EdgeClientPayloads ==
    { ParseOne \o ParseOne, QueryZero, LengthZero, LengthThree, LengthEight,
      StartupFrame, ControlFrame, QueryFour, QueryRest }

EdgeServerPayloads == { RowDescriptionFrame, RowDescriptionWrap }

EdgeClientPacket == CapturedClientPacket(EdgeClientPayloads, MaxEdgePackets)

EdgeServerPacket == CapturedServerPacket(EdgeServerPayloads, MaxEdgePackets)

EdgeNext == EdgeClientPacket \/ EdgeServerPacket

EdgeSpec == Init /\ [][EdgeNext]_vars


(* ---------------------- CommandComplete in segments -------------------- *)

\* StampSpec feeds one flow with Query frames and with server segments in
\* which a CommandComplete frame follows another frame, is cut in two, or
\* follows a frame taken out by an earlier call.

\* packets fed in StampSpec
MaxStampPackets == 4

StampClientPayloads == { QueryFrame }

StampServerPayloads ==
    { RowDescriptionFrame \o CommandCompleteFrame \o CommandCompleteHead,
      QueryTail, CommandCompleteFrame }

StampClientPacket == CapturedClientPacket(StampClientPayloads, MaxStampPackets)

StampServerPacket == CapturedServerPacket(StampServerPayloads, MaxStampPackets)

StampNext == StampClientPacket \/ StampServerPacket

StampSpec == Init /\ [][StampNext]_vars


(* ------------------------- two flows in one capture -------------------- *)

\* IsolationSpec is the packet loop of the replay command over a capture of
\* two conversations: the packets are given, sorted by timestamp, and handed
\* to AddPacket one after the other.

\* packets of the capture in IsolationSpec
MaxIsoPackets == 3

\* direction and payload of a packet: a whole Query frame, a Query frame in
\* two segments, a CommandComplete frame
IsoPayloads ==
    { [server |-> FALSE, data |-> QueryFrame], [server |-> FALSE, data |-> QueryHead],
      [server |-> FALSE, data |-> QueryTail],
      [server |-> TRUE, data |-> CommandCompleteFrame] }

\* what ExtractPackets and the sort by timestamp give
IsoCaptures ==
    { [i \in 1..MaxIsoPackets |->
          [client |-> c[i], server |-> p[i].server, data |-> p[i].data, ts |-> t[i]]] :
        c \in [1..MaxIsoPackets -> FlowClients],
        p \in [1..MaxIsoPackets -> IsoPayloads],
        t \in { u \in [1..MaxIsoPackets -> 1..MaxTime] :
                  \A i \in 1..(MaxIsoPackets - 1) : u[i] <= u[i + 1] } }

IsoInit ==
    /\ ManagerIdle
    /\ SizedIdle
    /\ WaitIdle
    /\ ReplayIdle
    /\ capture \in IsoCaptures

\* the next packet of the capture comes from a client
IsoClientPacket ==
    /\ npkts < Len(capture)
    /\ ~capture[npkts + 1].server
    /\ LET pkt == capture[npkts + 1]
       IN  AddPacket(pkt.data, pkt.ts, pkt.client.ip, ServerEndpoint.ip,
                     pkt.client.port, ServerEndpoint.port,
                     ServerEndpoint.ip, ServerEndpoint.port)
    /\ UNCHANGED capture

\* the next packet of the capture comes from the server
IsoServerPacket ==
    /\ npkts < Len(capture)
    /\ capture[npkts + 1].server
    /\ LET pkt == capture[npkts + 1]
       IN  AddPacket(pkt.data, pkt.ts, ServerEndpoint.ip, pkt.client.ip,
                     ServerEndpoint.port, pkt.client.port,
                     ServerEndpoint.ip, ServerEndpoint.port)
    /\ UNCHANGED capture

IsoNext == IsoClientPacket \/ IsoServerPacket

IsolationSpec == IsoInit /\ [][IsoNext]_vars


(* ------------------------------ waitForReady -------------------------- *)

\* WaitSpec is one call of waitForReady on a connection whose peer sends a
\* byte stream and may close or reset the connection.  Each action after
\* the call is one iteration of the outer loop, the framing loop included.
\* int is 64 bits wide, so that a length field is negative for no value.

\* calls of conn.Read in one call of waitForReady
MaxReads == 4

\* len(tmp), the most one Read returns
tmpSize == 4096

\* a DataRow frame whose payload is the byte 'Z'
DataRowFrame == <<68, 0, 0, 0, 5, MessageTypeReadyForQuery>>

\* a length-only frame whose payload is the byte 'Z'
LengthOnlyFrame == <<0, 0, 0, 5, MessageTypeReadyForQuery>>

\* a ReadyForQuery frame declaring L = 0
ReadyZero == <<MessageTypeReadyForQuery, 0, 0, 0, 0>>

\* what the peer sends before it falls silent or closes
WaitStreams ==
    { ReadyForQueryFrame,
      CommandCompleteFrame \o ReadyForQueryFrame,
      DataRowFrame \o ReadyForQueryFrame,
      LengthOnlyFrame \o ReadyForQueryFrame,
      RowDescriptionFrame \o ReadyZero,
      LengthZero \o ReadyForQueryFrame,
      DataRowFrame \o ControlFrame \o ReadyForQueryFrame }

\* faulty variant of waitFrames: any byte 'Z' in the buffer ends the wait
waitFramesAnyByte(buf) ==
    IF \E i \in 1..Len(buf) : buf[i] = MessageTypeReadyForQuery
    THEN [buf |-> buf, ret |-> "nil"]
    ELSE [buf |-> buf, ret |-> ""]

\* The framing loop of waitForReady: the buffer it leaves and what it makes
\* waitForReady return ("" when it breaks and the outer loop goes on).
RECURSIVE waitFrames(_)
waitFrames(buf) ==
    IF Len(buf) = 0 THEN [buf |-> buf, ret |-> ""]
    ELSE
    LET first == buf[1]
    IN  IF isASCIIType(first)
        THEN IF Len(buf) < 5 THEN [buf |-> buf, ret |-> ""]
             ELSE LET msgLen == BigEndianUint32(Slice(buf, 1, 5))
                      total == IF msgLen = Huge THEN Huge ELSE 1 + msgLen
                  IN  IF msgLen <= 0
                      THEN [buf |-> buf, ret |-> "invalid server length"]
                      ELSE IF Len(buf) < total THEN [buf |-> buf, ret |-> ""]
                      ELSE IF first = MessageTypeReadyForQuery
                      THEN [buf |-> buf, ret |-> "nil"]
                      ELSE waitFrames(Drop(buf, total))
        ELSE IF Len(buf) < 4 THEN [buf |-> buf, ret |-> ""]
             ELSE LET msgLen == BigEndianUint32(Slice(buf, 0, 4))
                  IN  IF msgLen <= 0
                      THEN [buf |-> buf, ret |-> "invalid server length-only"]
                      ELSE IF Len(buf) < msgLen THEN [buf |-> buf, ret |-> ""]
                      ELSE waitFrames(Drop(buf, msgLen))

\* waitForReady is called with a nil or an open connection
WaitInit ==
    /\ ManagerIdle
    /\ CaptureIdle
    /\ SizedIdle
    /\ ReplayIdle
    /\ \E s \in WaitStreams, c \in {0, 1} :
          waiting = [pending |-> s, buf |-> << >>, got |-> << >>, reads |-> 0,
                     ret |-> "call", conn |-> c]

WaitKeep == UNCHANGED <<managerVars, big, capture, replayVars>>

\* lines 36-41: a nil connection is refused, else the buffers are made
WaitCall ==
    /\ waiting.ret = "call"
    /\ waiting' = [waiting EXCEPT !.ret = IF waiting.conn = 0 THEN "nil connection"
                                          ELSE ""]
    /\ WaitKeep

\* faulty variant of WaitDeadline: the loop has no total deadline
WaitNoDeadline == FALSE /\ UNCHANGED vars

\* lines 44-46: the total deadline has passed
WaitDeadline ==
    /\ waiting.ret = ""
    /\ waiting' = [waiting EXCEPT !.ret = "timeout waiting ReadyForQuery"]
    /\ WaitKeep

\* lines 47-51, 63-101: Read returns n > 0 bytes and no error; the framing
\* loop runs over the accumulated bytes
WaitRead ==
    /\ waiting.ret = ""
    /\ waiting.reads < MaxReads
    /\ \E n \in 1..Len(waiting.pending) :
          /\ n <= tmpSize
          /\ LET tmp == SubSeq(waiting.pending, 1, n)
                 r == waitFrames(waiting.buf \o tmp)
             IN  waiting' = [waiting EXCEPT !.pending = Drop(@, n),
                                            !.got = @ \o tmp,
                                            !.reads = @ + 1,
                                            !.buf = r.buf,
                                            !.ret = r.ret]
    /\ WaitKeep

\* lines 52-56: the read deadline of 500 ms passes with nothing read
WaitReadTimeout ==
    /\ waiting.ret = ""
    /\ waiting.reads < MaxReads
    /\ waiting' = [waiting EXCEPT !.reads = @ + 1]
    /\ WaitKeep

\* lines 57-59: the peer closed after the last byte it sent was read
WaitEOF ==
    /\ waiting.ret = ""
    /\ waiting.reads < MaxReads
    /\ waiting.pending = << >>
    /\ waiting' = [waiting EXCEPT !.reads = @ + 1,
                                  !.ret = "connection closed by remote"]
    /\ WaitKeep

\* line 60: any other error of Read, a reset for one
WaitReadError ==
    /\ waiting.ret = ""
    /\ waiting.reads < MaxReads
    /\ waiting' = [waiting EXCEPT !.reads = @ + 1,
                                  !.ret = "read error while waiting ReadyForQuery"]
    /\ WaitKeep

WaitNext ==
    \/ WaitCall
    \/ WaitDeadline
    \/ WaitRead
    \/ WaitReadTimeout
    \/ WaitEOF
    \/ WaitReadError

WaitSpec == WaitInit /\ [][WaitNext]_vars

\* The goroutine that called waitForReady keeps running: every Read returns
\* within its read deadline of 500 ms, so an iteration that can be made is
\* made, and MaxReads iterations take the time up to the total deadline.
WaitFairSpec == WaitSpec /\ WF_vars(WaitNext)


(* ------------------------------- the claims --------------------------- *)

Flows == DOMAIN streams

Rows(msgs) == Flatten([i \in 1..Len(msgs) |-> Row(msgs[i])])

\* what the framing kept of a message: type, length field and payload
Frame(m) == [Type |-> m.Type, Len |-> m.Len, Payload |-> m.Payload]

Frames(msgs) == [i \in 1..Len(msgs) |-> Frame(msgs[i])]

IsPrefix(a, b) == Len(a) <= Len(b) /\ SubSeq(b, 1, Len(a)) = a

\* the well-formed client frames the segment payloads are cut from
ClientFrames == { QueryFrame, ParseFrame, StartupFrame, QueryHead \o QueryTail }

\* B is a run of well-formed frames followed by the head of one
RECURSIVE WellFormedStream(_)
WellFormedStream(B) ==
    \/ \E f \in ClientFrames : IsPrefix(B, f)
    \/ \E f \in ClientFrames :
          IsPrefix(f, B) /\ WellFormedStream(SubSeq(B, Len(f) + 1, Len(B)))

\* the flows that were fed client bytes only
ClientOnly == { k \in Flows : k \in DOMAIN sent /\ k \notin DOMAIN framed }

\* C1: reassembly is independent of segmentation.  For a flow fed the
\* chunks of a well-formed client stream B, the run has not faulted, feeding
\* B in one chunk does not fault either, both emit the same frames and leave
\* the same bytes, and the emitted frames' raw bytes followed by the bytes
\* left are B.
C1_SegmentationIndependent ==
    \A k \in ClientOnly :
        WellFormedStream(sent[k]) =>
            LET one == addClientData(NewTCPStream, sent[k], 1)
            IN  /\ fault = "none"
                /\ one.fault = "none"
                /\ Frames(streams[k].completed) = Frames(one.st.completed)
                /\ streams[k].clientBuf = one.st.clientBuf
                /\ Rows(streams[k].completed) \o streams[k].clientBuf = sent[k]

\* C2: in every state of a run that has not faulted the segment lengths of
\* a direction add up to the length of that direction's buffer.
C2_SegmentLogInvariant ==
    fault = "none" =>
        \A k \in Flows :
            /\ SumLengths(streams[k].clientSegs) = Len(streams[k].clientBuf)
            /\ SumLengths(streams[k].serverSegs) = Len(streams[k].serverBuf)

\* C3: with packets fed in non-decreasing timestamp order every emitted
\* message has first-byte timestamp <= last-byte timestamp, and the
\* first-byte timestamps of successive messages of a flow do not decrease.
C3_TimestampMonotone ==
    \A k \in Flows :
        LET c == streams[k].completed
        IN  \A i \in 1..Len(c) :
                /\ c[i].FirstTCPPacketTimestamp <= c[i].LastTCPPacketTimestamp
                /\ i > 1 => c[i - 1].FirstTCPPacketTimestamp <= c[i].FirstTCPPacketTimestamp

\* C4: round trip.  The Row() of the emitted messages of a flow, in order,
\* followed by the bytes still buffered, are the client bytes fed to the
\* flow, and a Row() has 1+Len bytes (typed) or Len bytes (length-only).
C4_RoundTrip ==
    \A k \in Flows :
        LET c == streams[k].completed
        IN  /\ Rows(c) \o streams[k].clientBuf = History(sent, k)
            /\ \A i \in 1..Len(c) :
                  Len(Row(c[i])) = IF c[i].Type # 0 THEN 1 + c[i].Len ELSE c[i].Len

\* a flow holds a completed typed message with a payload, framed from two
\* segments, and a completed length-only message
C4_Witness ==
    \E k \in Flows :
        LET c == streams[k].completed
        IN  /\ \E i \in 1..Len(c) :
                  /\ c[i].Type = MessageTypeQuery
                  /\ c[i].Payload = QueryTail
                  /\ c[i].FirstTCPPacketTimestamp < c[i].LastTCPPacketTimestamp
            /\ \E i \in 1..Len(c) : c[i].Type = ClientMessageTypeOnlyLength

\* C5: pairing rule.  Only a message whose type needs CommandComplete has a
\* CommandCompleteTimestamp.
C5_PairingRule ==
    \A k \in Flows :
        LET c == streams[k].completed
        IN  \A i \in 1..Len(c) :
                c[i].CommandCompleteTimestamp # 0 => NeedCommandCompleteAnswer(c[i].Type)


\* the timestamps of the frames of type `type` among the events evs
RECURSIVE StampsOf(_, _)
StampsOf(evs, type) ==
    IF evs = << >> THEN << >>
    ELSE (IF Head(evs).type = type THEN <<Head(evs).ts>> ELSE << >>)
         \o StampsOf(Tail(evs), type)

\* the server frames of type `type` the step framed on flow k
NewStamps(k, type) ==
    StampsOf(SubSeq(History(framed', k), Len(History(framed, k)) + 1,
                    Len(History(framed', k))), type)

\* the first message of c that needs CommandComplete and has none yet
AwaitingCommandComplete(c) ==
    { i \in 1..Len(c) : /\ NeedCommandCompleteAnswer(c[i].Type)
                        /\ c[i].CommandCompleteTimestamp = 0
                        /\ \A j \in 1..(i - 1) :
                              NeedCommandCompleteAnswer(c[j].Type)
                                  => c[j].CommandCompleteTimestamp # 0 }

\* c after each timestamp of tss, in order, was attached to the next message
\* that awaits CommandComplete (none: c is left as it is)
RECURSIVE PairCommandComplete(_, _)
PairCommandComplete(c, tss) ==
    IF tss = << >> THEN c
    ELSE LET a == AwaitingCommandComplete(c)
         IN  IF a = {} THEN PairCommandComplete(c, Tail(tss))
             ELSE PairCommandComplete(
                      [c EXCEPT ![CHOOSE i \in a : TRUE].CommandCompleteTimestamp = Head(tss)],
                      Tail(tss))

\* C6: pairing order.  A step that frames server CommandComplete frames on
\* a flow leaves the completed list as pairing each of them, in order, with
\* the next message awaiting CommandComplete leaves it.
C6_PairingOrder ==
    [][ \A k \in DOMAIN streams' :
            NewStamps(k, MessageTypeCommandComplete) # << >> =>
                streams'[k].completed =
                    PairCommandComplete(
                        IF k \in DOMAIN streams THEN streams[k].completed ELSE << >>,
                        NewStamps(k, MessageTypeCommandComplete)) ]_vars

\* C7: ReadyForQuery correlation.  A step that frames a server frame of
\* type 'Z' on a flow whose message at the cursor needReadyForQueryIndex
\* needs ReadyForQuery sets that message's ReadyForQueryTimestamp to the
\* timestamp of the first byte of the frame and moves the cursor past it.
C7_ReadyForQueryStamped ==
    [][ \A k \in DOMAIN streams \cap DOMAIN streams' :
            LET zs == NewStamps(k, MessageTypeReadyForQuery)
                n == streams[k].needReadyForQueryIndex
                c == streams[k].completed
            IN  (zs # << >> /\ n < Len(c) /\ NeedReadyForQueryAnswer(c[n + 1].Type)) =>
                    /\ streams'[k].completed[n + 1].ReadyForQueryTimestamp = zs[1]
                    /\ streams'[k].needReadyForQueryIndex > n ]_vars

\* C8: correlation order.  Of two completed messages of a flow that both
\* have a CommandCompleteTimestamp the earlier one's is not the larger.
C8_CorrelationOrder ==
    \A k \in Flows :
        LET c == streams[k].completed
        IN  \A i, j \in 1..Len(c) :
                (i < j /\ c[i].CommandCompleteTimestamp # 0
                       /\ c[j].CommandCompleteTimestamp # 0)
                    => c[i].CommandCompleteTimestamp <= c[j].CommandCompleteTimestamp

\* two messages of a flow were stamped by CommandComplete frames of
\* different segments
C8_Witness ==
    \E k \in Flows :
        LET c == streams[k].completed
        IN  \E i, j \in 1..Len(c) :
                /\ i < j
                /\ c[i].CommandCompleteTimestamp # 0
                /\ c[i].CommandCompleteTimestamp < c[j].CommandCompleteTimestamp

\* C9: write-once.  No packet changes a CommandCompleteTimestamp or
\* ReadyForQueryTimestamp that is set, nor the type, Len, payload or
\* first/last timestamps of a message that is completed.
C9_WriteOnce ==
    [][ \A k \in DOMAIN streams \cap DOMAIN streams' :
            LET c == streams[k].completed
                d == streams'[k].completed
            IN  \A i \in 1..Len(c) :
                    /\ i <= Len(d)
                    /\ Frame(d[i]) = Frame(c[i])
                    /\ d[i].FirstTCPPacketTimestamp = c[i].FirstTCPPacketTimestamp
                    /\ d[i].LastTCPPacketTimestamp = c[i].LastTCPPacketTimestamp
                    /\ c[i].CommandCompleteTimestamp # 0 =>
                           d[i].CommandCompleteTimestamp = c[i].CommandCompleteTimestamp
                    /\ c[i].ReadyForQueryTimestamp # 0 =>
                           d[i].ReadyForQueryTimestamp = c[i].ReadyForQueryTimestamp ]_vars

\* a stamped message is followed by a message framed from a later packet,
\* and a server frame was framed on the flow after the stamp
C9_Witness ==
    \E k \in Flows :
        LET c == streams[k].completed
        IN  /\ Len(c) >= 2
            /\ c[1].CommandCompleteTimestamp # 0
            /\ c[2].FirstTCPPacketTimestamp > c[1].CommandCompleteTimestamp
            /\ Len(History(framed, k)) >= 2

\* C10: cursor bound.  Neither cursor of a flow exceeds the length of the
\* completed list.
C10_CursorBound ==
    \A k \in Flows :
        /\ streams[k].needCommandCompleteIndex <= Len(streams[k].completed)
        /\ streams[k].needReadyForQueryIndex <= Len(streams[k].completed)

\* both cursors stand at the end of a list that holds a stamped Query and a
\* message that awaits nothing
C10_Witness ==
    \E k \in Flows :
        LET c == streams[k].completed
        IN  /\ Len(c) >= 2
            /\ streams[k].needCommandCompleteIndex = Len(c)
            /\ streams[k].needReadyForQueryIndex < Len(c)
            /\ \E i \in 1..Len(c) : c[i].CommandCompleteTimestamp # 0
            /\ \E i \in 1..Len(c) : ~NeedCommandCompleteAnswer(c[i].Type)

\* C11: an oversized frame halts framing.  No message is emitted for a frame
\* that declares a length over MAX_FRAME, also when the buffer holds all the
\* bytes it declares: every emitted message has Len <= MAX_FRAME.
C11_OversizedHalts ==
    \A i \in 1..Len(big.completed) : big.completed[i].Len <= MAX_FRAME

\* the message the driver handles at index i of the sorted list
MessageAt(i) == messages[i + 1]

\* the flow a given message was framed on, and its place in that flow
FlowOf(m) == m.Payload[1]

SeqOf(m) == m.Payload[2]

\* C12: replay preserves capture order.  Of two messages written, the one
\* written first has the smaller or equal first-byte timestamp, and if both
\* are of the same flow it was framed first.
C12_CaptureOrder ==
    \A p, q \in 1..Len(wrote) :
        p < q =>
            LET a == MessageAt(wrote[p])
                b == MessageAt(wrote[q])
            IN  /\ a.FirstTCPPacketTimestamp <= b.FirstTCPPacketTimestamp
                /\ FlowOf(a) = FlowOf(b) => SeqOf(a) < SeqOf(b)

\* C13: replay pacing.  A message is not written before the wall time
\* replayStart + (its first-byte timestamp - that of the first message) / Rate.
C13_Pacing ==
    lastWrite # << >> => lastWrite.wall >= targetTime(MessageAt(lastWrite.idx))

\* C14: replay never aborts.  Whatever the connects, writes and waits do,
\* ReplayMessages does not fault.
C14_NeverAborts == rpc # "idle" => fault = "none"

\* the index of the last message of the list
LastIndex == Len(messages) - 1

C16_ReturnContract ==
    rpc = "returned" => (ret = "error" <=> errorCount > 0)

\* C17: retry bound.  A message gets at most MaxRetries write attempts, and
\* an attempt after a failed one is made on a connection that was opened
\* after the failed one was closed.
C17_RetryBound ==
    /\ Len(attempts) <= config.MaxRetries
    /\ \A k \in 2..Len(attempts) :
          /\ ~attempts[k - 1].ok
          /\ attempts[k - 1].conn \in closed
          /\ attempts[k].conn # 0
          /\ attempts[k].conn > attempts[k - 1].conn

\* C18: a too-small packet touches nothing.  An AddPacket that returns the
\* error of a payload shorter than 4 bytes leaves the Flow Table as it was.
C18_TooSmallTouchesNothing ==
    [][ (npkts' = npkts + 1 /\ err' = "data length less than 4 bytes")
            => streams' = streams ]_vars

\* the key client-ip:client-port->server-ip:server-port of a conversation
CanonicalKey(c) == <<c.ip, c.port, ServerEndpoint.ip, ServerEndpoint.port>>

\* the stream of key k before a step, a new one if the table has none
StreamBefore(k) == IF k \in DOMAIN streams THEN streams[k] ELSE NewTCPStream

\* C19: canonical flow key.  A packet from client c to the server and a
\* packet from the server to c are filed under the one key of their
\* conversation, the first into the client direction of that flow and the
\* second into its server direction; no other flow is created or changed.
C19_CanonicalFlowKey ==
    [][ \A c \in FlowClients :
          LET k == CanonicalKey(c)
          IN  /\ FlowClientPacket(c) =>
                    /\ DOMAIN streams' = DOMAIN streams \cup {k}
                    /\ \A j \in DOMAIN streams \ {k} : streams'[j] = streams[j]
                    /\ streams'[k].serverBuf = StreamBefore(k).serverBuf
                    /\ streams'[k].serverSegs = StreamBefore(k).serverSegs
                    /\ framed' = framed
                    /\ err' = "" => Len(History(sent', k)) > Len(History(sent, k))
              /\ FlowServerPacket(c) =>
                    /\ DOMAIN streams' = DOMAIN streams \cup {k}
                    /\ \A j \in DOMAIN streams \ {k} : streams'[j] = streams[j]
                    /\ streams'[k].clientBuf = StreamBefore(k).clientBuf
                    /\ streams'[k].clientSegs = StreamBefore(k).clientSegs
                    /\ Frames(streams'[k].completed) = Frames(StreamBefore(k).completed)
                    /\ sent' = sent
                    /\ err' = "" =>
                          \/ streams'[k].serverBuf # StreamBefore(k).serverBuf
                          \/ Len(History(framed', k)) > Len(History(framed, k)) ]_vars

\* the conversation of the client on the server's host was fed packets of
\* both directions into one flow, beside the flow of the other client
C19_Witness ==
    LET k == CanonicalKey([ip |-> ServerEndpoint.ip, port |-> 40000])
    IN  /\ DOMAIN streams = { CanonicalKey(c) : c \in FlowClients }
        /\ k \in DOMAIN sent
        /\ k \in DOMAIN framed
        /\ streams[k].completed # << >>
        /\ framed[k] # << >>

Range(seq) == { seq[i] : i \in 1..Len(seq) }

Count(m, seq) == Cardinality({ i \in 1..Len(seq) : seq[i] = m })

\* a is b with some elements left out
RECURSIVE IsSubsequence(_, _)
IsSubsequence(a, b) ==
    IF a = << >> THEN TRUE
    ELSE IF b = << >> THEN FALSE
    ELSE IF Head(a) = Head(b) THEN IsSubsequence(Tail(a), Tail(b))
    ELSE IsSubsequence(a, Tail(b))

\* the completed lists of all flows, one after the other
AllCompleted ==
    LET o == CHOOSE o \in Orders(DOMAIN streams) : TRUE
    IN  Flatten([i \in 1..Len(o) |-> streams[o[i]].completed])

\* the streams one packet can make of a new stream
FreshStreams ==
    { NewTCPStream }
        \cup { addClientData(NewTCPStream, d, now').st : d \in FlowClientPayloads }
        \cup { addServerData(NewTCPStream, d, now').st : d \in FlowServerPayloads }

\* C20: collect drains everything.  CollectMessages returns the messages of
\* the completed lists of all flows, each as often as it is there and each
\* flow's in their order, stamps included, and empties the Flow Table: a
\* collect on the empty table returns nothing, and the stream a later packet
\* creates holds what that packet alone makes of a new stream.
C20_CollectDrains ==
    [][ /\ (pc = "ingest" /\ pc' = "collected") =>
              /\ streams' = << >>
              /\ \A k \in DOMAIN streams : IsSubsequence(streams[k].completed, out')
              /\ \A m \in Range(out') \cup Range(AllCompleted) :
                    Count(m, out') = Count(m, AllCompleted)
              /\ streams = << >> => out' = << >>
        /\ \A k \in DOMAIN streams' \ DOMAIN streams : streams'[k] \in FreshStreams ]_vars

\* a collect returned a stamped message, and a packet fed afterwards made a
\* flow whose only message is not stamped and whose cursor is at 0
C20_Witness ==
    /\ pc = "ingest"
    /\ \E i \in 1..Len(out) : out[i].CommandCompleteTimestamp # 0
    /\ \E k \in Flows :
          /\ Len(streams[k].completed) = 1
          /\ streams[k].completed[1].CommandCompleteTimestamp = 0
          /\ streams[k].needCommandCompleteIndex = 0


(* claims about frames at the edge cases, checked in EdgeSpec *)

IsClientPacket(p) == ~p.server

IsServerPacket(p) == p.server

\* the segments of one direction in the capture, as the Segment Log would
\* hold them if nothing was consumed
SegmentsOf(packets) ==
    [i \in 1..Len(packets) |-> [length |-> Len(packets[i].data), ts |-> packets[i].ts]]

ClientCapture == SelectSeq(capture, IsClientPacket)

ServerCapture == SelectSeq(capture, IsServerPacket)

\* the bytes of one direction in the capture
BytesOf(packets) == Flatten([i \in 1..Len(packets) |-> packets[i].data])

\* the capture timestamp of the byte at an offset of the stream of a
\* direction: that of the segment that carried it
RECURSIVE CaptureTime(_, _)
CaptureTime(log, offset) ==
    IF log = << >> THEN 0
    ELSE IF offset < Head(log).length THEN Head(log).ts
    ELSE CaptureTime(Tail(log), offset - Head(log).length)

\* the offset in the client stream of the first byte of the i-th message
StartOffset(c, i) == Len(Rows(SubSeq(c, 1, i - 1)))

\* segments that carry whole frames only
WholeFrameSegments == { ParseOne \o ParseOne, StartupFrame }

\* C21: timestamps of several frames in one segment.  When the segments of
\* a flow carry whole frames, more than one in a segment included, framing
\* does not fault, and every emitted message has as first-byte timestamp the
\* capture timestamp of the segment that carried its first byte and as
\* last-byte timestamp that of the segment that carried its last byte.
C21_SeveralFramesStamped ==
    (\A i \in 1..Len(capture) :
        ~capture[i].server /\ capture[i].data \in WholeFrameSegments) =>
        /\ fault = "none"
        /\ \A k \in Flows :
              LET c == streams[k].completed
                  log == SegmentsOf(ClientCapture)
              IN  \A i \in 1..Len(c) :
                     /\ c[i].FirstTCPPacketTimestamp = CaptureTime(log, StartOffset(c, i))
                     /\ c[i].LastTCPPacketTimestamp =
                            CaptureTime(log, StartOffset(c, i + 1) - 1)

\* the capture holds client packets only
ClientCaptureOnly == \A i \in 1..Len(capture) : ~capture[i].server

\* the length field of the frame at the front of a byte stream, << >> when
\* the stream is too short to hold it: bytes 1..5 after an ASCII letter,
\* bytes 0..4 otherwise
FrontLengthField(B) ==
    IF B = << >> THEN << >>
    ELSE IF isASCIIType(B[1])
    THEN IF Len(B) >= 5 THEN SubSeq(B, 2, 5) ELSE << >>
    ELSE IF Len(B) >= 4 THEN SubSeq(B, 1, 4) ELSE << >>

\* the client direction of a stream holds all the bytes of the capture and
\* nothing was emitted
NothingFramed(st) ==
    /\ st.completed = << >>
    /\ st.clientBuf = BytesOf(ClientCapture)
    /\ st.clientSegs = SegmentsOf(ClientCapture)
    /\ st.needCommandCompleteIndex = 0
    /\ st.needReadyForQueryIndex = 0

\* C22: a client frame declaring L = 0 halts framing.  When the frame at
\* the front of the client stream declares L = 0, typed or length-only, the
\* parser emits nothing, keeps the buffer, the segment log, the completed
\* list and the cursors as they are, and does not fault.
C22_ZeroLengthHalts ==
    (ClientCaptureOnly /\ FrontLengthField(BytesOf(ClientCapture)) = <<0, 0, 0, 0>>) =>
        /\ fault = "none"
        /\ \A k \in Flows : NothingFramed(streams[k])

\* C23: the client parser chooses the frame variant by the first byte as
\* the framing rule does.  An emitted message is typed, with the first byte
\* of its frame as type, exactly when that byte is an ASCII letter; for any
\* other first byte, 0 or not, it is a length-only frame with type 0 and the
\* length read from bytes 0..4.
C23_VariantByFirstByte ==
    ClientCaptureOnly =>
        \A k \in Flows :
            LET c == streams[k].completed
                B == BytesOf(ClientCapture)
            IN  \A i \in 1..Len(c) :
                   LET first == B[StartOffset(c, i) + 1]
                   IN  IF isASCIIType(first)
                       THEN c[i].Type = first
                       ELSE /\ c[i].Type = ClientMessageTypeOnlyLength
                            /\ PutUint32(c[i].Len) =
                                 SubSeq(B, StartOffset(c, i) + 1, StartOffset(c, i) + 4)

\* whole client frames that the segments of EdgeSpec can cut: Query with a
\* payload of 4 bytes and a length-only frame of 8 bytes
WaitingFrames == { QueryHead \o QueryTail, LengthEight \o QueryTail }

\* the message a whole frame makes
FrameOf(F) ==
    IF isASCIIType(F[1])
    THEN [Type |-> F[1], Len |-> Len(F) - 1, Payload |-> SubSeq(F, 6, Len(F))]
    ELSE [Type |-> ClientMessageTypeOnlyLength, Len |-> Len(F),
          Payload |-> SubSeq(F, 5, Len(F))]

\* C24: an incomplete frame waits.  While the client buffer holds fewer
\* bytes than the frame at its front needs, also when it holds the ASCII
\* first byte of a typed frame and 3 more bytes, the parser emits nothing,
\* leaves the buffer, the segment log, the completed list and the cursors
\* as they are and does not fault; once the missing bytes are appended the
\* frame is emitted.
C24_IncompleteWaits ==
    ClientCaptureOnly =>
        \A F \in WaitingFrames :
            LET B == BytesOf(ClientCapture)
            IN  /\ (B # << >> /\ B # F /\ IsPrefix(B, F)) =>
                      /\ fault = "none"
                      /\ \A k \in Flows : NothingFramed(streams[k])
                /\ B = F =>
                      /\ fault = "none"
                      /\ \A k \in Flows :
                            /\ Frames(streams[k].completed) = <<FrameOf(F)>>
                            /\ streams[k].clientBuf = << >>

\* C25: a length-only frame in a buffer of exactly 4 bytes.  With 4 bytes
\* buffered and a first byte that is not an ASCII letter, the client parser
\* emits a message exactly when the 4 bytes declare L = 4, and then one of
\* type 0, length 4 and empty payload; for any other L, below 4 included, it
\* emits nothing, keeps its state and does not fault.
C25_FourByteLengthOnly ==
    LET B == BytesOf(ClientCapture)
    IN  (ClientCaptureOnly /\ Len(B) = 4 /\ ~isASCIIType(B[1])) =>
            /\ fault = "none"
            /\ \A k \in Flows :
                  IF B = <<0, 0, 0, 4>>
                  THEN Frames(streams[k].completed) =
                          << [Type |-> ClientMessageTypeOnlyLength, Len |-> 4,
                              Payload |-> << >>] >>
                  ELSE NothingFramed(streams[k])

\* the server parser of a stream fed with the segments of packets, one call
\* of addServerData for each: the stream reached, the frames stepped over
\* and the fault, if any
RECURSIVE ServerRun(_, _, _)
ServerRun(st, packets, seen) ==
    IF packets = << >> THEN [st |-> st, framed |-> seen, fault |-> "none"]
    ELSE LET r == addServerData(st, Head(packets).data, Head(packets).ts)
         IN  IF r.fault # "none"
             THEN [st |-> r.st, framed |-> seen \o r.framed, fault |-> r.fault]
             ELSE ServerRun(r.st, Tail(packets), seen \o r.framed)

\* C26: both parsers find the same frames.  Fed with the same bytes in the
\* same segments, the server parser steps over as many frames as the client
\* parser emits, of the same variants and types, and both have consumed the
\* same number of bytes, also for a first byte that is neither 0 nor a
\* letter and for a length-only frame of 4 bytes.
C26_SameBoundaries ==
    (ClientCaptureOnly /\ fault = "none") =>
        \A k \in Flows :
            LET srv == ServerRun(NewTCPStream, ClientCapture, << >>)
                c == streams[k].completed
            IN  /\ srv.fault = "none"
                /\ Len(srv.st.serverBuf) = Len(streams[k].clientBuf)
                /\ Len(srv.framed) = Len(c)
                /\ \A i \in 1..Len(c) : srv.framed[i].type = c[i].Type

\* the capture holds server packets only
ServerCaptureOnly == \A i \in 1..Len(capture) : capture[i].server

\* C27: server framing always terminates.  parseServerBuffer returns for
\* every content of the server buffer: no iteration of its loop goes on
\* without consuming a byte.  A typed server frame declaring L = 2^32 - 1,
\* whose total 1 + L is 0 in 32-bit unsigned arithmetic, halts framing: it
\* is not stepped over and the buffer keeps all its bytes.
C27_ServerFramingTerminates ==
    /\ fault # "loop without progress"
    /\ (/\ ServerCaptureOnly
        /\ FrontLengthField(BytesOf(ServerCapture)) = <<255, 255, 255, 255>>
        /\ isASCIIType(BytesOf(ServerCapture)[1])) =>
           /\ fault = "none"
           /\ \A k \in Flows :
                 /\ streams[k].serverBuf = BytesOf(ServerCapture)
                 /\ History(framed, k) = << >>


(* claims about CommandComplete *)

\* no message of the stream at or after the cursor needCommandCompleteIndex
\* awaits CommandComplete
NoneAwaiting(st) ==
    \A i \in (st.needCommandCompleteIndex + 1)..Len(st.completed) :
        ~(/\ NeedCommandCompleteAnswer(st.completed[i].Type)
          /\ st.completed[i].CommandCompleteTimestamp = 0)

\* C28: an unmatched CommandComplete is harmless.  A step that frames a
\* server frame of type 'C' on a flow none of whose messages at or after the
\* cursor awaits CommandComplete leaves the completed list as it is, keeps
\* the cursor within the list and does not fault.
C28_UnmatchedCommandComplete ==
    [][ \A k \in DOMAIN streams' :
            (/\ NewStamps(k, MessageTypeCommandComplete) # << >>
             /\ NoneAwaiting(StreamBefore(k))) =>
                /\ fault' = "none"
                /\ streams'[k].completed = StreamBefore(k).completed
                /\ streams'[k].needCommandCompleteIndex <= Len(streams'[k].completed)
      ]_vars

\* the frames of a server byte stream from an offset on, each with its type
\* byte and the offset of its first byte: a typed frame takes 1 + L bytes, a
\* length-only frame L bytes, and framing stops at an incomplete frame or
\* at L = 0
RECURSIVE FrameStarts(_, _)
FrameStarts(B, offset) ==
    LET R == SubSeq(B, offset + 1, Len(B))
        L == BigEndianUint32(FrontLengthField(R))
        total == IF isASCIIType(R[1]) THEN 1 + L ELSE L
    IN  IF FrontLengthField(R) \in { << >>, <<0, 0, 0, 0>> } THEN << >>
        ELSE IF L = Huge \/ Len(R) < total THEN << >>
        ELSE <<[type |-> IF isASCIIType(R[1]) THEN R[1] ELSE 0, offset |-> offset]>>
                 \o FrameStarts(B, offset + total)

\* C29: the value of the CommandComplete timestamp.  The timestamp taken
\* for a server frame of type 'C' is the capture timestamp of the server
\* segment that carried the first byte of the frame, also when other frames
\* precede it in its segment, when it ends in a later segment, and when
\* earlier calls took frames out of the buffer; and the timestamps stamped
\* on the messages of the flow are those of its 'C' frames, in order.
C29_CommandCompleteValue ==
    \A k \in Flows :
        LET evs == History(framed, k)
            ref == FrameStarts(BytesOf(ServerCapture), 0)
            c == streams[k].completed
            stamps == StampsOf(evs, MessageTypeCommandComplete)
        IN  /\ Len(evs) <= Len(ref)
            /\ \A i \in 1..Len(evs) :
                  /\ evs[i].type = ref[i].type
                  /\ evs[i].type = MessageTypeCommandComplete =>
                        evs[i].ts = CaptureTime(SegmentsOf(ServerCapture), ref[i].offset)
            /\ \A i \in 1..Len(c) :
                  c[i].CommandCompleteTimestamp # 0 =>
                      /\ i <= Len(stamps)
                      /\ c[i].CommandCompleteTimestamp = stamps[i]

\* two Query messages are stamped: the first by a 'C' frame that follows a
\* RowDescription frame in its segment, the second, with the timestamp of
\* that segment, by a 'C' frame whose last bytes came in a later segment
C29_Witness ==
    /\ fault = "none"
    /\ Len(ServerCapture) = 2
    /\ ServerCapture[1].data =
           RowDescriptionFrame \o CommandCompleteFrame \o CommandCompleteHead
    /\ ServerCapture[2].data = QueryTail
    /\ ServerCapture[1].ts < ServerCapture[2].ts
    /\ \E k \in Flows :
          /\ Len(streams[k].completed) = 2
          /\ \A i \in 1..2 :
                streams[k].completed[i].CommandCompleteTimestamp = ServerCapture[1].ts


(* claims about waitForReady, checked in WaitSpec *)

\* a complete typed frame of type 'Z' starts at a frame boundary of B
HasReady(B) ==
    \E i \in 1..Len(FrameStarts(B, 0)) :
        FrameStarts(B, 0)[i].type = MessageTypeReadyForQuery

\* C30: waitForReady detects 'Z' only at frame boundaries.  Whatever the
\* pieces the reads deliver the server bytes in, waitForReady returns
\* success exactly when a complete typed frame of type 'Z' starts at a
\* frame boundary of the bytes read so far, and in the iteration whose read
\* completes that frame: while it goes on, and when it returns an error, the
\* bytes read hold no such frame.  A byte 'Z' in the payload of another
\* frame does not end the wait.
C30_ReadyAtFrameBoundary ==
    waiting.ret \notin {"idle", "call"} =>
        (waiting.ret = "nil" <=> HasReady(waiting.got))

\* the wait went on over a DataRow frame with the payload 'Z', read in a
\* piece of its own, and ended with success when the ReadyForQuery frame
\* after it was complete
C30_Witness ==
    /\ waiting.ret = "nil"
    /\ waiting.reads >= 3
    /\ waiting.got = DataRowFrame \o ReadyForQueryFrame

\* the offset at which the framing of waitForReady stops in the bytes B:
\* at an incomplete frame, at a declared length 0, or at a complete frame
\* of type 'Z'
RECURSIVE FramingEnd(_, _)
FramingEnd(B, offset) ==
    LET R == SubSeq(B, offset + 1, Len(B))
        L == BigEndianUint32(FrontLengthField(R))
        total == IF isASCIIType(R[1]) THEN 1 + L ELSE L
    IN  IF FrontLengthField(R) \in { << >>, <<0, 0, 0, 0>> } THEN offset
        ELSE IF L = Huge \/ Len(R) < total THEN offset
        ELSE IF R[1] = MessageTypeReadyForQuery THEN offset
        ELSE FramingEnd(B, offset + total)

\* the framing of B stops at a frame that declares the length 0
StopsAtZero(B) ==
    FrontLengthField(SubSeq(B, FramingEnd(B, 0) + 1, Len(B))) = <<0, 0, 0, 0>>

WaitErrors ==
    { "nil connection", "timeout waiting ReadyForQuery", "connection closed by remote",
      "read error while waiting ReadyForQuery", "invalid server length",
      "invalid server length-only" }

WaitReturned == waiting.ret \in WaitErrors \cup {"nil"}

\* C31: waitForReady always returns.  Whatever the peer does (it stays
\* silent, sends frames without 'Z', closes, sends a declared length 0),
\* the call returns in the end.  While it has not returned no declared
\* length 0 was framed; once one is framed the call has returned an error;
\* and a call that returned without a complete 'Z' frame among the bytes
\* read returned an error: remote close, length error, read error or the
\* total deadline.
C31_AlwaysReturns ==
    /\ <>WaitReturned
    /\ [](StopsAtZero(waiting.got) =>
              waiting.ret \in {"invalid server length", "invalid server length-only"})
    /\ []((WaitReturned /\ ~HasReady(waiting.got)) => waiting.ret \in WaitErrors)

\* the peer sent a RowDescription frame and then a frame declaring the
\* length 0, read after a read that timed out, and the call returned the
\* length error
C31_Witness ==
    /\ waiting.ret = "invalid server length"
    /\ waiting.got = RowDescriptionFrame \o ReadyZero
    /\ waiting.reads >= 3


(* more claims about the replay driver, checked in ReplaySpec *)

\* C32: a connection is recycled after a failed wait.  When waitForReady
\* fails for a message, the message is counted as an error and the current
\* connection is closed and given up; a connection is opened only when all
\* connections opened before it are closed; and no write attempt and no
\* waitForReady is made on a connection that was closed: the next message
\* is written on a connection opened after the close.
C32_ConnectionRecycled ==
    [][ /\ (rpc = "wait" /\ rpc' = "loop" /\ successCount' = successCount) =>
              /\ errorCount' = errorCount + 1
              /\ conn \in closed'
              /\ conn' = 0
        /\ (rpc = "wait" /\ rpc' = "loop") => conn \notin closed
        /\ Len(attempts') > Len(attempts) =>
              attempts'[Len(attempts')].conn \notin closed
        /\ dials' # dials => \A c \in 1..dials : c \in closed' ]_vars

\* the wait for the first message failed on connection 1, which was closed,
\* and the second message was written on connection 2
C32_Witness ==
    /\ waits = <<0>>
    /\ errorCount = 1
    /\ 1 \in closed
    /\ wrote = <<0, 1>>
    /\ lastWrite.idx = 1
    /\ lastWrite.conn = 2

\* C33: replay accounting.  Between two messages of the loop, and so at the
\* summary, successCount + errorCount is the number of messages the loop has
\* gone through: every message is counted once, as a success or as an
\* error, whatever the connects, writes and waits do.
C33_Accounting ==
    /\ rpc = "loop" => successCount + errorCount = idx
    /\ (rpc = "returned" /\ messages # << >>) =>
           successCount + errorCount = Len(messages)

\* the summary of a run of two messages: one success, one error
C33_Witness ==
    /\ rpc = "returned"
    /\ Len(messages) = 2
    /\ successCount = 1
    /\ errorCount = 1

\* C34: a counted success was really sent.  A message is counted as a
\* success only when its Row() was accepted by a write, and by one write
\* only, for every MaxRetries, 0 included.
C34_SuccessWasWritten ==
    [][ successCount' = successCount + 1 =>
            /\ lastWrite # << >>
            /\ lastWrite.idx = idx
            /\ Count(idx, wrote) = 1 ]_vars


(* more claims about the flows *)

\* C35: emitted messages are well formed.  Every message of a completed
\* list has Len >= 4 and a payload of Len - 4 bytes; a frame at the front of
\* the client stream that declares a length of 1, 2 or 3 is not emitted and
\* does not make the parser fault.
C35_WellFormedMessages ==
    /\ \A k \in Flows :
          \A i \in 1..Len(streams[k].completed) :
              LET m == streams[k].completed[i]
              IN  m.Len >= 4 /\ Len(m.Payload) = m.Len - 4
    /\ (/\ ClientCaptureOnly
        /\ FrontLengthField(BytesOf(ClientCapture))
               \in { <<0, 0, 0, 1>>, <<0, 0, 0, 2>>, <<0, 0, 0, 3>> }) =>
           /\ fault = "none"
           /\ \A k \in Flows : NothingFramed(streams[k])

\* the packets of a capture that belong to the conversation of client c
RECURSIVE PacketsOf(_, _)
PacketsOf(c, packets) ==
    IF packets = << >> THEN << >>
    ELSE (IF Head(packets).client = c THEN <<Head(packets)>> ELSE << >>)
         \o PacketsOf(c, Tail(packets))

\* a stream fed with packets of one conversation alone, in their order,
\* up to a fault
RECURSIVE FlowRun(_, _)
FlowRun(st, packets) ==
    IF packets = << >> THEN [st |-> st, fault |-> "none"]
    ELSE LET pkt == Head(packets)
             r == IF pkt.server
                  THEN addServerData(st, pkt.data, pkt.ts)
                  ELSE addClientData(st, pkt.data, pkt.ts)
         IN  IF r.fault # "none" THEN [st |-> r.st, fault |-> r.fault]
             ELSE FlowRun(r.st, Tail(packets))

\* C36: flow isolation.  When the packet loop over a capture of two
\* conversations has ended, each flow holds the completed messages, with
\* their timestamps and correlation stamps, that its own packets give when
\* they are fed alone in the same order; a conversation without packets has
\* no flow.
C36_FlowIsolation ==
    (npkts = Len(capture) \/ fault # "none") =>
        \A c \in FlowClients :
            LET own == PacketsOf(c, capture)
            IN  IF own = << >> THEN KeyOf(c) \notin Flows
                ELSE /\ KeyOf(c) \in Flows
                     /\ streams[KeyOf(c)].completed =
                            FlowRun(NewTCPStream, own).st.completed

====
